---- MODULE Spec2Model ----
(***************************************************************************)
(* Model of postal-inspector: the staging-based mail pipeline              *)
(* (services/mail_processor.py, transport/maildir.py,                      *)
(* transport/imap_client.py), the staging claim protocol, and the AI       *)
(* verdict parser / analyzer (scanner/ai_analyzer.py).                     *)
(***************************************************************************)
EXTENDS Integers, Sequences, FiniteSets, TLC

(***************************************************************************)
(* Bounds of the model.                                                    *)
(***************************************************************************)
\* number of distinct raw messages that can ever arrive upstream
MaxMsgs == 2
\* total number of injected I/O faults (disk, IMAP, scan) in one behaviour
MaxFaults == 2
\* settings.max_retries as configured for the modelled run
MaxRetries == 2

VARIABLES
    \* ---- upstream IMAP mailbox and IMAPFetcher state
    inbox,                  \* sequence of raw messages, index = IMAP sequence number
    everInbox,              \* history: raw messages that were ever in the INBOX
    client,                 \* IMAPFetcher._client is not None
    connected,              \* IMAPFetcher._connected
    consecutive_failures,   \* IMAPFetcher._consecutive_failures
    last_error,             \* IMAPFetcher._last_error is not None
    last_successful_fetch,  \* IMAPFetcher._last_successful_fetch is not None
    \* ---- MaildirManager on-disk state
    staging,                \* set of files [name, suffix, raw] in .staging
    nextName,               \* next fresh value of _generate_filename
    delivered,              \* .staging/.delivered : raw -> number of files
    failed,                 \* .staging/.failed    : raw -> number of files
    quarantined,            \* .Quarantine/cur     : raw -> number of files
    accepted,               \* local store: raw -> number of final LMTP 250/251
    \* ---- MailProcessor state
    retry_counts,           \* MailProcessor._retry_counts (0 = no entry)
    shutdown,               \* MailProcessor._shutdown is set
    pc,                     \* position of run() / _process_cycle / _process_email
    claimed,                \* staging_emails of this cycle not yet handed to _process_email
    pending,                \* rest of message_ids in fetch_new_messages
    cur,                    \* the item _process_email / the fetch loop works on
    faults,                 \* number of faults injected so far
    attempts,               \* history: lmtp.deliver calls per observed staging file
                            \* since the file was last placed
    acceptances,            \* history: final 250/251 replies per observed staging file
    \* ---- two concurrent get_staging_emails calls
    claimer,
    \* ---- AIAnalyzer
    response,               \* judge response text handed to _parse_response
    scan,                   \* state of one analyze_email call
    \* ---- RateLimiter
    limiter,                \* clock, RateLimiter.timestamps, position of acquire()
    \* ---- LMTPDelivery
    lmtp,                   \* one deliver() call: position, replies received, outcome
    \* ---- the fetch loop against an INBOX with undeletable messages
    fetcher,                \* INBOX, refused deletes, position of the fetch loop
    saver,                  \* one save_to_staging() call: position, directory, outcome
    imap                    \* one IMAPFetcher object: health fields, call in progress

procVars == <<inbox, everInbox, client, connected, consecutive_failures, last_error,
              last_successful_fetch, nextName, delivered, failed,
              quarantined, accepted, retry_counts, shutdown, pc, claimed, pending,
              cur, faults>>
vars == <<procVars, staging, attempts, acceptances, claimer, response, scan, limiter, lmtp, fetcher,
          saver, imap>>

(***************************************************************************)
(* Raw messages and the message model.                                     *)
(***************************************************************************)
RawMessages == 1 .. MaxMsgs

\* ParsedEmail.parse(raw) raises for a malformed message (here: message 1)
Parses(raw) == raw > 1

\* ParsedEmail.message_id: the header may be shared by unrelated messages
MessageIdOf(raw) == raw \div 2

MessageIds == {MessageIdOf(r) : r \in RawMessages}

ZeroCount == [r \in RawMessages |-> 0]

NoItem ==
    [name |-> 0, suffix |-> "none", raw |-> 0, ctx |-> "none", seq |-> 0, why |-> "none",
     verdict |-> "none"]

(***************************************************************************)
(* MaildirManager: pure effects on the staging directory.                  *)
(***************************************************************************)
File(name, suffix, raw) == [name |-> name, suffix |-> suffix, raw |-> raw]

Exists(stg, name, suffix) == \E f \in stg : f.name = name /\ f.suffix = suffix

\* Path.rename: the source entry disappears, the target entry is replaced
Rename(stg, name, from, to) ==
    LET src == CHOOSE f \in stg : f.name = name /\ f.suffix = from
    IN  {f \in stg : f.name # name \/ f.suffix \notin {from, to}}
            \cup {File(name, to, src.raw)}

\* save_to_staging, success path: <name>.mail written and size-verified
SaveToStaging(stg, name, raw) == stg \cup {File(name, "mail", raw)}

\* remove_from_staging: unlink the named file if present
RemoveFromStaging(stg, name, suffix) ==
    {f \in stg : ~(f.name = name /\ f.suffix = suffix)}

\* a restore that unlinks the claimed file instead of renaming it back
RestoreByUnlink(stg, name) == {f \in stg : ~(f.name = name /\ f.suffix = "processing")}

\* restore_to_staging: rename <name>.processing -> <name>.mail if it exists
RestoreToStaging(stg, name) ==
    IF Exists(stg, name, "processing") THEN Rename(stg, name, "processing", "mail")
    ELSE stg

\* a claim that copies <name>.mail to <name>.processing and leaves the source
ClaimByCopy(stg, name) ==
    stg \cup {File(name, "processing", (CHOOSE f \in stg : f.name = name /\ f.suffix = "mail").raw)}

\* the claim of get_staging_emails: rename <name>.mail -> <name>.processing
ClaimRename(stg, name) == Rename(stg, name, "mail", "processing")

Put(folder, raw) == [folder EXCEPT ![raw] = @ + 1]

(***************************************************************************)
(* MailProcessor: run(), _process_cycle(), _process_staging(),             *)
(* _process_email(), _deliver_with_retry(), _handle_delivery_failure().    *)
(* One action per awaited call; pc is the position of the coroutine.       *)
(***************************************************************************)
imapVars == <<client, connected, consecutive_failures, last_error, last_successful_fetch>>
folderVars == <<delivered, failed, quarantined>>
modelVars == <<claimer, response, scan, limiter, lmtp, fetcher, saver, imap>>
auxVars == <<modelVars, acceptances>>
otherVars == <<attempts, auxVars>>

CanFault == faults < MaxFaults

\* one more lmtp.deliver call for the staging file, when the file is observed
Attempted(att, name) ==
    IF name \in DOMAIN att THEN [att EXCEPT ![name] = @ + 1] ELSE att

\* the staging file's bytes were placed (accepted by LMTP, quarantined, failed)
Placed(att, name) ==
    IF name \in DOMAIN att THEN [att EXCEPT ![name] = 0] ELSE att

\* lmtp.deliver returned True for the staging file, when the file is observed
Accepted(acc, name) ==
    IF name \in DOMAIN acc THEN [acc EXCEPT ![name] = @ + 1] ELSE acc

\* _increment_retry
IncrementRetry(counts, mid) == [counts EXCEPT ![mid] = @ + 1]

\* a _clear_retry that leaves the entry in the map
KeepRetry(counts, mid) == counts

\* _clear_retry
ClearRetry(counts, mid) == [counts EXCEPT ![mid] = 0]

\* the generator fetch_new_messages resumed after its yield: break (line 168)
AfterYield(rest) == << >>

\* a run() whose loop body has no except clause: the exception ends run()
CycleErrorUncaught ==
    /\ pc' = "stopped"
    /\ cur' = NoItem
    /\ claimed' = << >>
    /\ pending' = << >>

\* run(): an exception out of _process_cycle is logged, then the interval wait
CycleError ==
    /\ pc' = "wait"
    /\ cur' = NoItem
    /\ claimed' = << >>
    /\ pending' = << >>

\* _process_email returned: back in the loop that called it
ItemDone ==
    /\ cur' = NoItem
    /\ IF cur.ctx = "drain"
       THEN /\ pc' = "drain_next"
            /\ UNCHANGED <<claimed, pending>>
       ELSE /\ pending' = AfterYield(pending)
            /\ pc' = IF AfterYield(pending) = << >> THEN "wait" ELSE "fetch_msg"
            /\ UNCHANGED claimed

\* run(): ensure_directories, then imap.connect(); a failed connect leaves run()
\* through the finally block (disconnect)
RunStart ==
    /\ pc = "start"
    /\ \/ /\ client' = TRUE
          /\ connected' = TRUE
          /\ consecutive_failures' = 0
          /\ last_error' = FALSE
          /\ pc' = "loop"
          /\ UNCHANGED faults
       \/ /\ CanFault
          /\ faults' = faults + 1
          /\ client' = FALSE
          /\ connected' = FALSE
          /\ last_error' = TRUE
          /\ pc' = "stopped"
          /\ UNCHANGED consecutive_failures
    /\ UNCHANGED <<inbox, everInbox, last_successful_fetch, staging, nextName, folderVars,
                   accepted, retry_counts, shutdown, claimed, pending, cur, otherVars>>

\* run(): while not self._shutdown.is_set(); finally: imap.disconnect()
RunLoop ==
    /\ pc = "loop"
    /\ IF shutdown
       THEN /\ pc' = "stopped"
            /\ client' = FALSE
            /\ connected' = FALSE
       ELSE /\ pc' = "drain_claim"
            /\ UNCHANGED <<client, connected>>
    /\ UNCHANGED <<inbox, everInbox, consecutive_failures, last_error, last_successful_fetch,
                   staging, nextName, folderVars, accepted, retry_counts, shutdown,
                   claimed, pending, cur, faults, otherVars>>

\* run(): wait_for(shutdown.wait(), timeout=fetch_interval)
RunWait ==
    /\ pc = "wait"
    /\ pc' = "loop"
    /\ UNCHANGED <<inbox, everInbox, imapVars, staging, nextName, folderVars, accepted,
                   retry_counts, shutdown, claimed, pending, cur, faults, otherVars>>

MailFiles(stg) == {f \in stg : f.suffix = "mail"}

\* all orderings of a set of files as a list of (filename, raw) pairs
Orderings(S) ==
    {q \in [1 .. Cardinality(S) -> S] : \A i, j \in 1 .. Cardinality(S) : i # j => q[i] # q[j]}

\* _process_staging(): staging_emails = get_staging_emails() with no concurrent
\* claimer: every listed .mail file is renamed to .processing; a file whose read
\* fails stays .processing and is not returned; a failed iterdir returns []
ProcessStagingGet ==
    /\ pc = "drain_claim"
    /\ \/ /\ \E q \in Orderings(MailFiles(staging)) :
                claimed' = [i \in DOMAIN q |-> File(q[i].name, "processing", q[i].raw)]
          /\ staging' = {File(f.name, IF f.suffix = "mail" THEN "processing" ELSE f.suffix, f.raw) :
                            f \in staging}
          /\ UNCHANGED faults
       \/ /\ CanFault
          /\ \E bad \in MailFiles(staging) :
                /\ \E q \in Orderings(MailFiles(staging) \ {bad}) :
                      claimed' = [i \in DOMAIN q |-> File(q[i].name, "processing", q[i].raw)]
                /\ staging' = {File(f.name, IF f.suffix = "mail" THEN "processing" ELSE f.suffix, f.raw) :
                                  f \in staging}
          /\ faults' = faults + 1
       \/ /\ CanFault
          /\ faults' = faults + 1
          /\ claimed' = << >>
          /\ UNCHANGED staging
    /\ pc' = "drain_next"
    /\ UNCHANGED <<inbox, everInbox, imapVars, nextName, folderVars, accepted, retry_counts,
                   shutdown, pending, cur, otherVars>>

\* _process_staging(): for staging_filename, raw_email in staging_emails
ProcessStagingNext ==
    /\ pc = "drain_next"
    /\ IF claimed = << >> \/ shutdown
       THEN /\ pc' = "fetch_start"
            /\ UNCHANGED <<claimed, cur>>
       ELSE /\ cur' = [name |-> Head(claimed).name, suffix |-> "processing",
                       raw |-> Head(claimed).raw, ctx |-> "drain", seq |-> 0, why |-> "none",
                       verdict |-> "none"]
            /\ claimed' = Tail(claimed)
            /\ pc' = "parse"
    /\ UNCHANGED <<inbox, everInbox, imapVars, staging, nextName, folderVars, accepted,
                   retry_counts, shutdown, pending, faults, otherVars>>

\* _process_email(): ParsedEmail.parse(raw_email)
ProcessEmailParse ==
    /\ pc = "parse"
    /\ IF Parses(cur.raw)
       THEN /\ pc' = "scan"
            /\ UNCHANGED cur
       ELSE /\ pc' = "to_failed"
            /\ cur' = [cur EXCEPT !.why = "parse"]
    /\ UNCHANGED <<inbox, everInbox, imapVars, staging, nextName, folderVars, accepted,
                   retry_counts, shutdown, claimed, pending, faults, otherVars>>

\* a branch that hands every scanned item to LMTP
VerdictBranchDeliver(verdict) == "deliver"

\* _process_email(): if result.verdict == Verdict.QUARANTINE: ... else: ...
VerdictBranch(verdict) == IF verdict = "QUARANTINE" THEN "quarantine" ELSE "deliver"

\* _process_email(): result = analyzer.analyze_email(email); the call is not
\* guarded, so an exception leaving analyze_email leaves _process_cycle
ProcessEmailScan ==
    /\ pc = "scan"
    /\ \/ /\ \E verdict \in {"SAFE", "QUARANTINE"} :
                /\ cur' = [cur EXCEPT !.verdict = verdict]
                /\ pc' = VerdictBranch(verdict)
          /\ UNCHANGED <<claimed, pending, faults>>
       \/ /\ CanFault
          /\ faults' = faults + 1
          /\ CycleError
    /\ UNCHANGED <<inbox, everInbox, imapVars, staging, nextName, folderVars, accepted,
                   retry_counts, shutdown, otherVars>>

\* a quarantine() whose failure is logged and swallowed, as archive_delivered's is
QuarantineSwallowed ==
    /\ pc' = "remove"
    /\ cur' = [cur EXCEPT !.why = "quarantine"]
    /\ UNCHANGED <<claimed, pending>>

\* quarantine() raised DeliveryError: _process_email has no handler, the
\* exception leaves _process_cycle
QuarantineRaised == CycleError

\* _process_email(): maildir.quarantine(raw_email, reason); raises DeliveryError
\* when the write fails
ProcessEmailQuarantine ==
    /\ pc = "quarantine"
    /\ \/ /\ quarantined' = Put(quarantined, cur.raw)
          /\ attempts' = Placed(attempts, cur.name)
          /\ cur' = [cur EXCEPT !.why = "quarantine"]
          /\ pc' = "remove"
          /\ UNCHANGED <<claimed, pending, faults>>
       \/ /\ CanFault
          /\ faults' = faults + 1
          /\ QuarantineRaised
          /\ UNCHANGED <<quarantined, attempts>>
    /\ UNCHANGED <<inbox, everInbox, imapVars, staging, nextName, delivered, failed, accepted,
                   retry_counts, shutdown, auxVars>>

\* a threshold test that lets one more attempt through
AtThresholdStrict(count) == count > MaxRetries

\* _handle_delivery_failure(): if count >= self.max_retries
AtThreshold(count) == count >= MaxRetries

\* _handle_delivery_failure(): count = _increment_retry(message_id); at the
\* threshold go on to move_to_failed, else return False to _process_email, which
\* restores a .processing file and leaves a .mail file where it is
HandleDeliveryFailure(why) ==
    LET mid == MessageIdOf(cur.raw)
        count == retry_counts[mid] + 1
    IN  /\ retry_counts' = IncrementRetry(retry_counts, mid)
        /\ IF AtThreshold(count)
           THEN /\ pc' = "to_failed"
                /\ cur' = [cur EXCEPT !.why = why]
                /\ UNCHANGED <<claimed, pending>>
           ELSE IF cur.suffix = "processing"
           THEN /\ pc' = "restore"
                /\ UNCHANGED <<cur, claimed, pending>>
           ELSE ItemDone

\* _deliver_with_retry(): lmtp.deliver(raw_email, recipient): True on a final
\* 250/251, False on a temporary failure, DeliveryError on a permanent one
DeliverWithRetry ==
    /\ pc = "deliver"
    /\ attempts' = Attempted(attempts, cur.name)
    /\ \/ /\ accepted' = Put(accepted, cur.raw)
          /\ acceptances' = Accepted(acceptances, cur.name)
          /\ pc' = "archive"
          /\ UNCHANGED <<retry_counts, cur, claimed, pending>>
       \/ /\ HandleDeliveryFailure("temp")
          /\ UNCHANGED <<accepted, acceptances>>
       \/ /\ HandleDeliveryFailure("perm")
          /\ UNCHANGED <<accepted, acceptances>>
    /\ UNCHANGED <<inbox, everInbox, imapVars, staging, nextName, folderVars, shutdown,
                   faults, modelVars>>

\* _deliver_with_retry(): archive_delivered (a failed write is swallowed),
\* _clear_retry, return True
ArchiveDelivered ==
    /\ pc = "archive"
    /\ \/ /\ delivered' = Put(delivered, cur.raw)
          /\ UNCHANGED faults
       \/ /\ CanFault
          /\ faults' = faults + 1
          /\ UNCHANGED delivered
    /\ retry_counts' = ClearRetry(retry_counts, MessageIdOf(cur.raw))
    /\ attempts' = Placed(attempts, cur.name)
    /\ cur' = [cur EXCEPT !.why = "delivered"]
    /\ pc' = "remove"
    /\ UNCHANGED <<inbox, everInbox, imapVars, staging, nextName, failed, quarantined,
                   accepted, shutdown, claimed, pending, auxVars>>

\* move_to_failed(): called for a parse error (no retry bookkeeping) and at the
\* retry threshold (then _clear_retry, return True).  It raises DeliveryError
\* when the write fails: raised under the try of _deliver_with_retry (temporary
\* failure path) it is caught by "except DeliveryError", which calls
\* _handle_delivery_failure again; raised anywhere else it leaves the cycle
MoveToFailed ==
    /\ pc = "to_failed"
    /\ \/ /\ failed' = Put(failed, cur.raw)
          /\ retry_counts' = IF cur.why = "parse" THEN retry_counts
                             ELSE ClearRetry(retry_counts, MessageIdOf(cur.raw))
          /\ attempts' = Placed(attempts, cur.name)
          /\ cur' = [cur EXCEPT !.why = "failed"]
          /\ pc' = "remove"
          /\ UNCHANGED <<claimed, pending, faults>>
       \/ /\ CanFault
          /\ faults' = faults + 1
          /\ UNCHANGED <<failed, attempts>>
          /\ IF cur.why = "temp"
             THEN HandleDeliveryFailure("perm")
             ELSE CycleError /\ UNCHANGED retry_counts
    /\ UNCHANGED <<inbox, everInbox, imapVars, staging, nextName, delivered, quarantined,
                   accepted, shutdown, auxVars>>

\* _process_email(): remove_from_staging(staging_filename) (a failed unlink is
\* swallowed); on the quarantine path _clear_retry follows
RemoveStaging ==
    /\ pc = "remove"
    /\ \/ /\ staging' = RemoveFromStaging(staging, cur.name, cur.suffix)
          /\ UNCHANGED faults
       \/ /\ CanFault
          /\ faults' = faults + 1
          /\ UNCHANGED staging
    /\ retry_counts' = IF cur.why = "quarantine"
                       THEN ClearRetry(retry_counts, MessageIdOf(cur.raw))
                       ELSE retry_counts
    /\ ItemDone
    /\ UNCHANGED <<inbox, everInbox, imapVars, nextName, folderVars, accepted, shutdown,
                   otherVars>>

\* _process_email(): restore_to_staging(staging_filename) (a failed rename is
\* swallowed)
RestoreStaging ==
    /\ pc = "restore"
    /\ \/ /\ staging' = RestoreToStaging(staging, cur.name)
          /\ UNCHANGED faults
       \/ /\ CanFault
          /\ faults' = faults + 1
          /\ UNCHANGED staging
    /\ ItemDone
    /\ UNCHANGED <<inbox, everInbox, imapVars, nextName, folderVars, accepted, retry_counts,
                   shutdown, otherVars>>

(***************************************************************************)
(* IMAPFetcher.fetch_new_messages() driven by the async for of             *)
(* _process_cycle(), save_to_staging() and delete_message().               *)
(***************************************************************************)
\* the generator's first step: connection check, SELECT INBOX, SEARCH ALL
FetchStart ==
    /\ pc = "fetch_start"
    /\ IF ~client \/ ~connected
       THEN /\ CycleError
            /\ UNCHANGED <<imapVars, faults>>
       ELSE \/ /\ pending' = [i \in 1 .. Len(inbox) |-> i]
               /\ last_successful_fetch' = TRUE
               /\ pc' = "fetch_msg"
               /\ UNCHANGED <<client, connected, consecutive_failures, last_error, cur,
                              claimed, faults>>
            \/ /\ CanFault
               /\ faults' = faults + 1
               /\ connected' = FALSE
               /\ last_error' = TRUE
               /\ consecutive_failures' = consecutive_failures + 1
               /\ CycleError
               /\ UNCHANGED <<client, last_successful_fetch>>
            \/ /\ CanFault
               /\ faults' = faults + 1
               /\ pc' = "wait"
               /\ UNCHANGED <<imapVars, cur, claimed, pending>>
    /\ UNCHANGED <<inbox, everInbox, staging, nextName, folderVars, accepted, retry_counts,
                   shutdown, otherVars>>

\* a fetch loop that does not look at the shutdown event
BreakFetchNever(stop) == FALSE

\* _process_cycle(): if self._shutdown.is_set(): break
BreakFetch(stop) == stop

\* a fetch loop without its inner except clause: a failed FETCH ends the call
FailSequence ==
    /\ pending' = << >>
    /\ pc' = "wait"
    /\ UNCHANGED <<cur, last_successful_fetch>>

\* except Exception around the FETCH of one message: imap_fetch_failed, continue
SkipMessage ==
    /\ pending' = Tail(pending)
    /\ UNCHANGED <<pc, cur, last_successful_fetch>>

\* the generator's loop: FETCH msg_id (RFC822); a failed fetch is skipped, a
\* fetched message is yielded to _process_cycle, which breaks on shutdown
FetchMsg ==
    /\ pc = "fetch_msg"
    /\ IF pending = << >>
       THEN /\ pc' = "wait"
            /\ UNCHANGED <<pending, cur, last_successful_fetch, faults>>
       ELSE \/ /\ Head(pending) <= Len(inbox)
               /\ last_successful_fetch' = TRUE
               /\ IF BreakFetch(shutdown)
                  THEN /\ pc' = "wait"
                       /\ pending' = << >>
                       /\ UNCHANGED cur
                  ELSE /\ pc' = "save"
                       /\ pending' = Tail(pending)
                       /\ cur' = [name |-> 0, suffix |-> "none", raw |-> inbox[Head(pending)],
                                  ctx |-> "fetch", seq |-> Head(pending), why |-> "none",
                                  verdict |-> "none"]
               /\ UNCHANGED faults
            \/ /\ CanFault
               /\ faults' = faults + 1
               /\ SkipMessage
    /\ UNCHANGED <<inbox, everInbox, client, connected, consecutive_failures, last_error,
                   staging, nextName, folderVars, accepted, retry_counts, shutdown, claimed,
                   otherVars>>

\* a save_to_staging that raised, without the "continue": the cycle goes on to
\* delete_message
SaveFailedNoContinue ==
    /\ pc' = "delete"
    /\ UNCHANGED <<cur, pending>>

\* _process_cycle(): except Exception around save_to_staging: continue, which
\* resumes the generator
SaveFailed ==
    /\ cur' = NoItem
    /\ pending' = AfterYield(pending)
    /\ pc' = IF AfterYield(pending) = << >> THEN "wait" ELSE "fetch_msg"

\* _process_cycle(): staging_filename = save_to_staging(raw_email); on an
\* exception: continue (the message is not deleted upstream)
SaveStep ==
    /\ pc = "save"
    /\ \/ /\ staging' = SaveToStaging(staging, nextName, cur.raw)
          /\ nextName' = nextName + 1
          /\ cur' = [cur EXCEPT !.name = nextName, !.suffix = "mail"]
          /\ pc' = "delete"
          /\ UNCHANGED <<pending, faults>>
       \/ /\ CanFault
          /\ faults' = faults + 1
          /\ SaveFailed
          /\ UNCHANGED <<staging, nextName>>
    /\ UNCHANGED <<inbox, everInbox, imapVars, folderVars, accepted, retry_counts, shutdown,
                   claimed, otherVars>>

\* the INBOX without the message at sequence number seq (STORE \Deleted, EXPUNGE)
Expunge(box, seq) == [i \in 1 .. Len(box) - 1 |-> IF i < seq THEN box[i] ELSE box[i + 1]]

\* _process_cycle(): imap.delete_message(msg_id); a failure is logged and the
\* item is processed all the same
DeleteStep ==
    /\ pc = "delete"
    /\ \/ /\ inbox' = Expunge(inbox, cur.seq)
          /\ UNCHANGED faults
       \/ /\ CanFault
          /\ faults' = faults + 1
          /\ UNCHANGED inbox
    /\ pc' = "parse"
    /\ UNCHANGED <<everInbox, imapVars, staging, nextName, folderVars, accepted, retry_counts,
                   shutdown, claimed, pending, cur, otherVars>>

(***************************************************************************)
(* Environment: mail arriving upstream, the shutdown signal.               *)
(***************************************************************************)
Arrive ==
    /\ \E raw \in RawMessages \ everInbox :
          /\ inbox' = Append(inbox, raw)
          /\ everInbox' = everInbox \cup {raw}
    /\ UNCHANGED <<imapVars, staging, nextName, folderVars, accepted, retry_counts, shutdown,
                   pc, claimed, pending, cur, faults, otherVars>>

\* request_shutdown()
RequestShutdown ==
    /\ ~shutdown
    /\ pc # "stopped"
    /\ shutdown' = TRUE
    /\ UNCHANGED <<inbox, everInbox, imapVars, staging, nextName, folderVars, accepted,
                   retry_counts, pc, claimed, pending, cur, faults, otherVars>>

(***************************************************************************)
(* The processor specification.                                            *)
(***************************************************************************)
IdleClaimer ==
    [c \in {1, 2} |-> [pc |-> "idle", listing |-> << >>, listed |-> {},
                       won |-> {}, returned |-> {}]]
IdleScan ==
    [pc |-> "idle", subject |-> "str", attempt |-> 0, fault |-> "none",
     verdict |-> "none", reason |-> << >>, calls |-> << >>]

IdleLimiter ==
    [pc |-> "idle", now |-> 0, timestamps |-> << >>, wake |-> 0, attempt |-> 0,
     acquires |-> 0, calls |-> << >>]

IdleLmtp ==
    [pc |-> "idle", dialogue |-> << >>, result |-> "none", calls |-> 0, quit |-> "none"]

\* MaildirManager before any save_to_staging() call: an empty staging directory
IdleSaver ==
    [pc |-> "idle", dir |-> {}, name |-> 0, expected |-> 0, result |-> "none", calls |-> 0]

\* IMAPFetcher.__init__
Health(connected_, failures, error, fetched) ==
    [connected |-> connected_, consecutive_failures |-> failures, last_error |-> error,
     last_successful_fetch |-> fetched]

IdleImap ==
    [pc |-> "idle", client |-> FALSE, health |-> Health(FALSE, 0, "none", 0),
     before |-> Health(FALSE, 0, "none", 0), op |-> "none", result |-> "none",
     attempt |-> 0, tries |-> 0, sleeps |-> << >>, ops |-> 0]

IdleFetcher ==
    [pc |-> "loop", inbox |-> << >>, ever |-> {}, refused |-> {}, pending |-> << >>,
     raw |-> 0, seq |-> 0, saved |-> {}, faults |-> 0,
     found |-> 0, skipped |-> {}, yielded |-> {}]

\* names _generate_filename can return in one behaviour
FileNames == 1 .. (MaxMsgs + MaxFaults)

\* a MailProcessor just constructed over a staging directory holding stg
ProcessorStart(stg, next) ==
    /\ inbox = << >>
    /\ everInbox = {}
    /\ client = FALSE
    /\ connected = FALSE
    /\ consecutive_failures = 0
    /\ last_error = FALSE
    /\ last_successful_fetch = FALSE
    /\ staging = stg
    /\ nextName = next
    /\ delivered = ZeroCount
    /\ failed = ZeroCount
    /\ quarantined = ZeroCount
    /\ accepted = ZeroCount
    /\ retry_counts = [m \in MessageIds |-> 0]
    /\ shutdown = FALSE
    /\ pc = "start"
    /\ claimed = << >>
    /\ pending = << >>
    /\ cur = NoItem
    /\ faults = 0
    /\ claimer = IdleClaimer
    /\ response = << >>
    /\ scan = IdleScan
    /\ limiter = IdleLimiter
    /\ lmtp = IdleLmtp
    /\ fetcher = IdleFetcher
    /\ saver = IdleSaver
    /\ imap = IdleImap

\* the processor started over an empty staging directory
ProcessorInit == ProcessorStart({}, 1)

Init == ProcessorInit /\ attempts = << >> /\ acceptances = << >>

ProcessorStep ==
    \/ RunStart
    \/ RunLoop
    \/ RunWait
    \/ ProcessStagingGet
    \/ ProcessStagingNext
    \/ ProcessEmailParse
    \/ ProcessEmailScan
    \/ ProcessEmailQuarantine
    \/ DeliverWithRetry
    \/ ArchiveDelivered
    \/ MoveToFailed
    \/ RemoveStaging
    \/ RestoreStaging
    \/ FetchStart
    \/ FetchMsg
    \/ SaveStep
    \/ DeleteStep

Next == ProcessorStep \/ Arrive \/ RequestShutdown

Spec == Init /\ [][Next]_vars

(***************************************************************************)
(* Properties of the pipeline.                                             *)
(***************************************************************************)
InInbox(raw) == \E i \in 1 .. Len(inbox) : inbox[i] = raw
InStaging(raw) == \E f \in staging : f.raw = raw
Staged(name) == \E f \in staging : f.name = name
InTerminal(raw) == delivered[raw] > 0 \/ failed[raw] > 0 \/ quarantined[raw] > 0

\* C1: no message is ever dropped: every message that was ever in the upstream
\* INBOX is still upstream, or in staging (.mail or .processing), or in a
\* terminal folder, or was accepted by the local store with a final 250/251.
C1_NoMessageDropped ==
    \A raw \in everInbox :
        InInbox(raw) \/ InStaging(raw) \/ InTerminal(raw) \/ accepted[raw] > 0

\* C1 witness: after a fault, a message has left the INBOX and staging for a
\* terminal folder, while another message is kept only by its staging file.
C1_Witness ==
    /\ faults > 0
    /\ \E raw \in everInbox : ~InInbox(raw) /\ ~InStaging(raw) /\ InTerminal(raw)
    /\ \E raw \in everInbox : ~InInbox(raw) /\ InStaging(raw) /\ ~InTerminal(raw)
                              /\ accepted[raw] = 0

\* the file save_to_staging just returned for the item of the fetch loop
SavedForCur ==
    /\ cur.ctx = "fetch"
    /\ cur.name = nextName - 1
    /\ Exists(staging, cur.name, "mail")
    /\ \A f \in staging : f.name = cur.name => f.raw = cur.raw
    /\ cur.seq <= Len(inbox)
    /\ inbox[cur.seq] = cur.raw

\* C3: delete_message is issued only for a message whose bytes save_to_staging
\* has just written to staging; a message leaves the INBOX only by that delete;
\* and after a save that wrote nothing the cycle does not go on to the delete.
C3_DeleteAfterSave ==
    [][ /\ (pc = "delete" => SavedForCur)
        /\ (inbox' # inbox /\ Len(inbox') <= Len(inbox) =>
                pc = "delete" /\ SavedForCur /\ inbox' = Expunge(inbox, cur.seq))
        /\ (pc = "save" /\ staging' = staging => pc' # "delete") ]_vars

\* C3 witness: the upstream delete of a staged message has been carried out.
C3_Witness ==
    /\ pc = "parse"
    /\ cur.ctx = "fetch"
    /\ Exists(staging, cur.name, "mail")
    /\ ~InInbox(cur.raw)

\* the staging entries that a step unlinks (a rename keeps the name)
Unlinked(f) == f \in staging /\ ~(\E g \in staging' : g.name = f.name)

\* C4 as claimed: whenever a staging file is unlinked, a terminal folder holds
\* a file with its bytes.
C4_TerminalBeforeUnlink ==
    [][ \A f \in staging : Unlinked(f) => InTerminal(f.raw) ]_vars

\* C4 amended: whenever a staging file is unlinked, a terminal folder holds a
\* file with its bytes, or the local store accepted the bytes (final 250/251)
\* and only the archive copy is missing.
C4_TerminalOrAcceptedBeforeUnlink ==
    [][ \A f \in staging : Unlinked(f) => InTerminal(f.raw) \/ accepted[f.raw] > 0 ]_vars

\* C4 witness: an item was unlinked from staging after its archive write failed.
C4_Witness ==
    \E raw \in everInbox :
        /\ accepted[raw] > 0
        /\ ~InTerminal(raw)
        /\ ~InStaging(raw)

\* C5: copies of one upstream message never lie in two different terminal
\* folders.
C5_TerminalExclusive ==
    \A raw \in RawMessages :
        Cardinality({k \in {"d", "f", "q"} :
                        \/ k = "d" /\ delivered[raw] > 0
                        \/ k = "f" /\ failed[raw] > 0
                        \/ k = "q" /\ quarantined[raw] > 0}) <= 1

ItemPositions == {"parse", "scan", "quarantine", "deliver", "archive", "to_failed",
                  "remove", "restore"}

\* C8: an item is processed only while the processor holds it under the
\* .processing suffix.
C8_ProcessedOnlyWhenClaimed ==
    pc \in ItemPositions \ {"remove", "restore"} =>
        /\ cur.suffix = "processing"
        /\ Exists(staging, cur.name, "processing")
        /\ ~Exists(staging, cur.name, "mail")

(***************************************************************************)
(* Properties of one _process_email pass, of the retry bookkeeping and of  *)
(* the cycle structure.                                                    *)
(***************************************************************************)
\* the step in which _process_email (or the fetch loop body) ends for cur
PassEnds == cur # NoItem /\ cur' = NoItem

\* the pass dials LMTP only under a SAFE verdict of the same pass
DialedOnlyWhenSafe ==
    /\ (pc # "deliver" /\ pc' = "deliver" => pc = "scan" /\ cur'.verdict = "SAFE")
    /\ (pc \in {"deliver", "archive"} => cur.verdict = "SAFE")
    /\ (accepted' # accepted => pc = "deliver" /\ cur.verdict = "SAFE")
    /\ (retry_counts' # retry_counts /\ pc \in {"deliver", "to_failed"} => cur.verdict = "SAFE")

AttemptFailed == pc = "deliver" /\ pc' # "deliver" /\ pc' # "archive"

\* the retry count of the current item's message_id, before and after the step
CountOfCur == retry_counts[MessageIdOf(cur.raw)]
CountOfCurAfter == retry_counts'[MessageIdOf(cur.raw)]

\* a failed attempt increments the count and takes the branch of the new count
FailureCounted ==
    AttemptFailed =>
        /\ CountOfCurAfter = CountOfCur + 1
        /\ (CountOfCurAfter >= MaxRetries <=> pc' = "to_failed")
        /\ (CountOfCurAfter < MaxRetries => pc' = "restore" \/ PassEnds)

\* the pass ends below the threshold
EndsBelowThreshold == PassEnds /\ pc \in {"deliver", "restore"}

\* the pass ends at or past the threshold
EndsAtThreshold == PassEnds /\ cur.verdict = "SAFE" /\ cur.why \in {"temp", "perm", "failed"}

EndsPlaced ==
    PassEnds /\ cur.verdict # "none" /\ cur.why \in {"delivered", "quarantine", "failed"}

Admitted == pc \in {"save", "delete"} \/ (pc \in ItemPositions /\ cur.ctx = "fetch")

\* _process_staging is running
Draining == pc \in {"drain_claim", "drain_next"} \/ (pc \in ItemPositions /\ cur.ctx = "drain")

\* C16: within a cycle the fetch phase starts only out of the drain loop; while
\* a fetched message is saved, deleted upstream or processed no claimed item of
\* the cycle is still waiting for its pass; every pass of the drain that did not
\* abort the cycle ended by removing the placed item or by releasing it; and no
\* fetched message is pending while the drain runs.
C16_DrainBeforeFetch ==
    [][ /\ (Admitted => claimed = << >>)
        /\ (Admitted' => claimed' = << >>)
        /\ (pc # "fetch_start" /\ pc' = "fetch_start" =>
                pc = "drain_next" /\ (claimed = << >> \/ shutdown))
        /\ (PassEnds /\ cur.ctx = "drain" /\ pc' # "wait" =>
                pc \in {"remove", "restore"} /\ pc' = "drain_next")
        /\ (Draining => pending = << >>) ]_vars

\* C16 witness: a fetched message is being saved while an item of an earlier
\* cycle, released back to .mail, lies in staging.
C16_Witness ==
    /\ pc = "save"
    /\ ~shutdown
    /\ \E f \in staging : f.suffix = "mail" /\ retry_counts[MessageIdOf(f.raw)] > 0

\* the step in which fetch_new_messages() sends SELECT INBOX and SEARCH ALL
ImapSelect == pc = "fetch_start" /\ client /\ connected /\ pc' # "fetch_start"

\* the drain loop was left by its shutdown break with claimed items remaining
DrainCutShort == shutdown /\ claimed # << >>

\* C17: once the shutdown event is set the processor starts no further claimed
\* item, starts no further cycle, stages no further upstream message, and,
\* when the shutdown was requested during the drain phase, sends no IMAP
\* SELECT/SEARCH/FETCH in that cycle.
C17_CooperativeShutdown ==
    [][ /\ (shutdown /\ pc = "drain_next" => pc' # "parse")
        /\ (shutdown /\ pc = "loop" => pc' # "drain_claim")
        /\ (shutdown /\ pc = "fetch_msg" => pc' # "save")
        /\ (DrainCutShort => ~ImapSelect) ]_vars

\* the processor is inside _process_cycle()
InCycle == pc \notin {"start", "loop", "wait", "stopped"}

\* C19: nothing raised inside a processing cycle ends run(): every way out of
\* _process_cycle, by return or by exception, leads to the fetch_interval
\* wait, then to the loop test, which starts the next cycle unless shutdown
\* was requested.
C19_LoopSurvival ==
    [][ /\ (InCycle => pc' # "stopped")
        /\ (pc = "wait" /\ pc' # "wait" => pc' = "loop")
        /\ (pc = "loop" /\ pc' # "loop" =>
                pc' = IF shutdown THEN "stopped" ELSE "drain_claim") ]_vars

\* a cycle starts although an earlier cycle's fetch raised and left the
\* connection marked down
C19_Witness ==
    /\ pc = "drain_claim"
    /\ ~shutdown
    /\ client
    /\ ~connected
    /\ last_error
    /\ consecutive_failures > 0

\* the consumer of fetch_new_messages() is done with a yielded message and
\* resumes the generator (normal return of the loop body, no shutdown)
GeneratorResumed == PassEnds /\ cur.ctx = "fetch" /\ ~shutdown /\ faults' = faults

\* C22: one call of fetch_new_messages yields every message that SEARCH
\* returned: when the generator is resumed after a yield with searched
\* messages still unfetched, it goes on to FETCH the next one.
C22_FetchYieldsAll ==
    [][GeneratorResumed /\ pending # << >> => pc' = "fetch_msg" /\ pending' = pending]_vars

\* a copy of the message was saved to staging at some time: it is still
\* staged, or it was placed (or accepted by LMTP) from there
EverSaved(raw) ==
    \/ \E f \in staging : f.raw = raw
    \/ delivered[raw] + failed[raw] + quarantined[raw] + accepted[raw] > 0

\* the message was saved in an earlier fetch and its upstream delete failed
DeleteFailed(raw) == InInbox(raw) /\ EverSaved(raw)

\* the message stands in INBOX behind the message just yielded: this call of
\* fetch_new_messages() has not sent a FETCH for it
NotFetched(raw) ==
    \E i \in DOMAIN inbox : i >= cur.seq /\ inbox[i] = raw /\ raw # cur.raw

\* C24: a failed upstream delete leaves the message in INBOX and the item is
\* processed all the same; and when a later fetch phase is over, it has not
\* ended without a FETCH for a message whose delete failed in an earlier
\* cycle (the message is fetched and yielded again).
C24_RefetchAfterDeleteFailure ==
    [][ /\ (pc = "delete" /\ faults' > faults => pc' = "parse" /\ cur' = cur /\ inbox' = inbox)
        /\ (GeneratorResumed /\ pc' = "wait" =>
                \A d \in RawMessages : DeleteFailed(d) => ~NotFetched(d)) ]_vars

\* save_to_staging raised for the fetched message: nothing was written
SaveRaised == pc = "save" /\ pc' # "save" /\ staging' = staging

\* C25: after a failed save_to_staging the message is skipped: no upstream
\* delete, no scan and no delivery for it, no staging file, the message still
\* upstream; and the cycle goes on with the next message that SEARCH returned.
C25_SaveFailureSkips ==
    [][SaveRaised =>
          /\ pc' \in {"fetch_msg", "wait"}
          /\ cur' = NoItem
          /\ inbox' = inbox
          /\ InInbox(cur.raw)
          /\ (pending # << >> => pc' = "fetch_msg" /\ pending' = pending)]_vars

\* the staging files under the .processing suffix
ProcessingFiles(stg) == {f \in stg : f.suffix = "processing"}

\* C27: when a cycle of the running processor is over (the processor waits
\* for the next one), no staging file claimed by this run is left under the
\* .processing suffix.
C27_NoOrphanedClaims ==
    pc = "wait" => ProcessingFiles(staging) = {}

\* _increment_retry is executed for some message_id
Incremented == \E m \in MessageIds : retry_counts'[m] > retry_counts[m]

\* C32: the retry counter is incremented once per failed lmtp.deliver call:
\* only the step that made the call increments it, and by one.
C32_OneIncrementPerAttempt ==
    [][Incremented =>
          /\ pc = "deliver"
          /\ retry_counts' = IncrementRetry(retry_counts, MessageIdOf(cur.raw))]_vars

\* the effects of the outer except clause of fetch_new_messages()
ConnectionLost ==
    /\ connected' = FALSE
    /\ last_error' = TRUE
    /\ consecutive_failures' = consecutive_failures + 1
    /\ pc' = "wait"

\* a FETCH of one message failed
FetchFailed == pc = "fetch_msg" /\ faults' > faults

\* C33 as stated: a failure while iterating fetch_new_messages, in
\* SELECT/SEARCH or in the FETCH of one message, marks the fetcher
\* disconnected, increments consecutive_failures by one, records last_error
\* and ends the sequence.
C33_FetchErrorMarksDown ==
    [][ /\ (pc = "fetch_start" /\ connected /\ ~connected' => ConnectionLost)
        /\ (FetchFailed => ConnectionLost) ]_vars

\* C33: an exception in SELECT or SEARCH marks the fetcher disconnected,
\* increments consecutive_failures by one, records last_error and ends the
\* sequence; a failed FETCH of one message leaves the fetcher's state as it
\* was and the sequence goes on with the next searched message.
C33_SelectSearchErrorMarksDown ==
    [][ /\ (pc = "fetch_start" /\ connected /\ ~connected' => ConnectionLost)
        /\ (FetchFailed =>
                /\ UNCHANGED imapVars
                /\ pc' = "fetch_msg"
                /\ pending' = Tail(pending)) ]_vars

\* the FETCH of the first searched message failed and the fetcher, still
\* connected and without a recorded failure, is about to FETCH the second
C33_Witness ==
    /\ pc = "fetch_msg"
    /\ pending = <<2>>
    /\ cur = NoItem
    /\ faults > 0
    /\ connected
    /\ consecutive_failures = 0
    /\ ~last_error

(***************************************************************************)
(* The processor started over a staging directory in which an earlier run  *)
(* left two .mail files (the case _process_staging exists for).            *)
(***************************************************************************)
LeftoverInit ==
    /\ \E r1, r2 \in RawMessages :
          ProcessorStart({File(1, "mail", r1), File(2, "mail", r2)}, 3)
    /\ attempts = << >>
    /\ acceptances = << >>

LeftoverSpec == LeftoverInit /\ [][Next]_vars

\* the pass of a drained item ends in an exception that leaves _process_cycle
DrainPassRaises == PassEnds /\ cur.ctx = "drain" /\ pc' = "wait"

\* C20: a pass that raises (quarantine() or move_to_failed() raising, an
\* unexpected exception in scan or deliver) affects only its own item: no
\* other item claimed by the same drain is left unprocessed and unreleased
\* when the cycle ends.
C20_PerItemContainment ==
    [][DrainPassRaises => claimed = << >>]_vars

(***************************************************************************)
(* The processor started over a staging directory in which an earlier run  *)
(* (crashed or shut down in mid-claim) left one .processing file.          *)
(***************************************************************************)
AbandonedInit ==
    /\ \E r \in RawMessages : ProcessorStart({File(1, "processing", r)}, 2)
    /\ attempts = << >>
    /\ acceptances = << >>

AbandonedSpec == AbandonedInit /\ [][Next]_vars

\* run() is past imap.connect(): the loop of cycles has begun
Started == pc \notin {"start", "stopped"}

\* C21: once the processor has started and before (and while) it runs its
\* cycles, the .processing file left by the previous run is no longer under
\* the .processing suffix: it was renamed back to .mail at startup.
C21_StartupRescue ==
    Started => ~Exists(staging, 1, "processing")

(***************************************************************************)
(* The processor with its delivery attempts observed per staging file.     *)
(***************************************************************************)
RetryInit ==
    ProcessorInit /\ attempts = [n \in FileNames |-> 0] /\ acceptances = << >>

RetrySpec == RetryInit /\ [][Next]_vars

\* C12 (P5): within one process lifetime no staging item is handed to
\* lmtp.deliver more than max_retries times before it is placed (so neither
\* are the items of any message_id), whatever other items share its
\* message_id.
C12_RetryCap ==
    \A n \in DOMAIN attempts : attempts[n] <= MaxRetries

\* the retry threshold sends the item in hand to .failed
GivenUp == pc = "deliver" /\ pc' = "to_failed"

\* C29: the retry threshold moves an item to .failed only after that item
\* itself has had at least max_retries failed delivery attempts, whatever
\* happened to other items with the same message_id.
C29_NoPrematureGiveUp ==
    [][GivenUp => attempts'[cur.name] >= MaxRetries]_vars

(***************************************************************************)
(* The processor with the LMTP acceptances observed per staging file.      *)
(***************************************************************************)
DeliveryInit ==
    ProcessorInit /\ attempts = << >> /\ acceptances = [n \in FileNames |-> 0]

DeliverySpec == DeliveryInit /\ [][Next]_vars

\* the staging file in hand is submitted to lmtp.deliver
Submitted == pc = "deliver" /\ pc' # "deliver"

\* C30: a staging file that LMTP has accepted (final 250/251) is never
\* submitted to LMTP again, in this or in a later cycle.
C30_AtMostOnceDelivery ==
    [][Submitted => acceptances[cur.name] = 0]_vars

(***************************************************************************)
(* Liveness: the event loop keeps running the processor coroutine.         *)
(***************************************************************************)
FairSpec == Spec /\ WF_vars(ProcessorStep)

StagedAs(name, raw) == \E f \in staging : f.name = name /\ f.raw = raw

\* C2: as long as no shutdown is requested, every message acknowledged by
\* save_to_staging eventually has its staging entry gone and its bytes placed:
\* in a terminal file in .delivered, .Quarantine/cur or .failed (granting the
\* claim the one case in which only the archive copy of an accepted message is
\* missing).
C2_StagedEventuallyTerminal ==
    ([]~shutdown) =>
        \A name \in FileNames : \A raw \in RawMessages :
            StagedAs(name, raw) ~>
                (~Staged(name) /\ (InTerminal(raw) \/ accepted[raw] > 0))

\* run() has returned: the loop was left and the finally clause disconnected
RunReturned == pc = "stopped" /\ ~client /\ ~connected

\* no message_id has an entry in _retry_counts
RetryMapEmpty == \A m \in MessageIds : retry_counts[m] = 0

\* C18: after request_shutdown(), whenever it is called, run() eventually
\* returns without starting another cycle, with IMAP disconnected and the
\* retry map empty.
C18_ShutdownTermination ==
    /\ shutdown ~> (RunReturned /\ RetryMapEmpty)
    /\ [][shutdown /\ pc = "loop" => pc' # "drain_claim"]_vars

\* the running processor holds a fetcher that a fetch error marked disconnected
Disconnected == Started /\ client /\ ~connected

\* C23: as long as no shutdown is requested, a fetcher that a fetch error left
\* disconnected is eventually connected again (the processor reconnects on a
\* later cycle), so that fetching resumes without a restart.
C23_ReconnectAfterDisconnect ==
    ([]~shutdown) => (Disconnected ~> connected)

\* the processor over leftover staging files, scheduled fairly
LeftoverFairSpec == LeftoverSpec /\ WF_vars(ProcessorStep)

\* C31: as long as no shutdown is requested, every file pending in staging
\* under .mail is eventually claimed (it leaves the .mail suffix), whether or
\* not the upstream IMAP server can be reached.
C31_DrainWithoutUpstream ==
    ([]~shutdown) =>
        \A name \in {1, 2} : Exists(staging, name, "mail") ~> ~Exists(staging, name, "mail")

(***************************************************************************)
(* MaildirManager.get_staging_emails() run by two callers at once over one *)
(* staging directory, with files being saved meanwhile.  Each caller lists *)
(* the .mail files, then for each listed file renames it to .processing    *)
(* and reads it.                                                           *)
(***************************************************************************)
Claimers == {1, 2}

\* number of files saved to staging in the claim specifications
MaxStaged == 2

procUnchanged == <<inbox, everInbox, imapVars, folderVars, accepted, retry_counts, shutdown,
                   pc, claimed, pending, cur, attempts, acceptances, limiter, lmtp,
                   fetcher, saver, imap>>

Call(c) == claimer[c]

SetCall(c, rec) == [claimer EXCEPT ![c] = rec]

\* staging_files = [f for f in staging_dir.iterdir() if f.suffix == ".mail"]
ClaimerList(c) ==
    /\ Call(c).pc = "idle"
    /\ \E q \in Orderings(MailFiles(staging)) :
          claimer' = SetCall(c, [Call(c) EXCEPT !.pc = "rename",
                                                !.listing = [i \in DOMAIN q |-> q[i].name],
                                                !.listed = {q[i].name : i \in DOMAIN q}])
    /\ UNCHANGED <<procUnchanged, staging, nextName, faults, response, scan>>

\* a FileNotFoundError that is passed over: the caller goes on to read
\* processing_path
RenameFailedFallThrough(c) ==
    claimer' = SetCall(c, [Call(c) EXCEPT !.pc = "read"])

\* except FileNotFoundError: continue
RenameFailed(c) ==
    claimer' = SetCall(c, [Call(c) EXCEPT !.listing = Tail(@)])

\* file_path.rename(processing_path), or the end of the for loop
ClaimerRename(c) ==
    /\ Call(c).pc = "rename"
    /\ IF Call(c).listing = << >>
       THEN /\ claimer' = SetCall(c, [Call(c) EXCEPT !.pc = "done"])
            /\ UNCHANGED staging
       ELSE IF Exists(staging, Head(Call(c).listing), "mail")
       THEN /\ staging' = ClaimRename(staging, Head(Call(c).listing))
            /\ claimer' = SetCall(c, [Call(c) EXCEPT !.pc = "read",
                                                    !.won = @ \cup {Head(Call(c).listing)}])
       ELSE /\ RenameFailed(c)
            /\ UNCHANGED staging
    /\ UNCHANGED <<procUnchanged, nextName, faults, response, scan>>

\* raw_email = f.read(); emails.append((processing_path.name, raw_email)); a
\* failed read is logged and the file is left out of the result
ClaimerRead(c) ==
    /\ Call(c).pc = "read"
    /\ \/ /\ Exists(staging, Head(Call(c).listing), "processing")
          /\ claimer' = SetCall(c, [Call(c) EXCEPT !.pc = "rename", !.listing = Tail(@),
                                                  !.returned = @ \cup {Head(Call(c).listing)}])
       \/ claimer' = SetCall(c, [Call(c) EXCEPT !.pc = "rename", !.listing = Tail(@)])
    /\ UNCHANGED <<procUnchanged, staging, nextName, faults, response, scan>>

\* save_to_staging by the fetch phase of a running processor
StagingSave ==
    /\ nextName <= MaxStaged
    /\ staging' = SaveToStaging(staging, nextName, ((nextName - 1) % MaxMsgs) + 1)
    /\ nextName' = nextName + 1
    /\ UNCHANGED <<procUnchanged, claimer, faults, response, scan>>

ClaimNext ==
    \/ \E c \in Claimers : ClaimerList(c)
    \/ \E c \in Claimers : ClaimerRename(c)
    \/ \E c \in Claimers : ClaimerRead(c)
    \/ StagingSave

ClaimSpec == Init /\ [][ClaimNext]_vars

\* C6: two concurrent get_staging_emails calls never return the same staging
\* item, and a call returns only items whose rename it won itself (a caller
\* whose rename fails skips the item).
C6_ClaimAtomicity ==
    /\ Call(1).returned \cap Call(2).returned = {}
    /\ \A c \in Claimers : Call(c).returned \subseteq Call(c).won
    /\ Call(1).won \cap Call(2).won = {}

\* C6 witness: both calls listed the same file, both finished, one returned it.
C6_Witness ==
    /\ Call(1).pc = "done"
    /\ Call(2).pc = "done"
    /\ \E n \in Call(1).listed \cap Call(2).listed : n \in Call(1).returned

(***************************************************************************)
(* Any sequence of save_to_staging, get_staging_emails, restore_to_staging *)
(* and remove_from_staging on one staging directory.                       *)
(***************************************************************************)
\* restore_to_staging(<name>.processing) by a caller holding the name
StagingRestore ==
    /\ \E f \in staging : staging' = RestoreToStaging(staging, f.name)
    /\ UNCHANGED <<procUnchanged, claimer, nextName, faults, response, scan>>

\* remove_from_staging(filename), either suffix
StagingRemove ==
    /\ \E f \in staging : \E suffix \in {"mail", "processing"} :
          staging' = RemoveFromStaging(staging, f.name, suffix)
    /\ UNCHANGED <<procUnchanged, claimer, nextName, faults, response, scan>>

\* a finished get_staging_emails call returns; the caller may call again
ClaimerReturn(c) ==
    /\ Call(c).pc = "done"
    /\ claimer' = SetCall(c, IdleClaimer[c])
    /\ UNCHANGED <<procUnchanged, staging, nextName, faults, response, scan>>

StagingNext ==
    \/ ClaimNext
    \/ StagingRestore
    \/ StagingRemove
    \/ \E c \in Claimers : ClaimerReturn(c)

StagingSpec == Init /\ [][StagingNext]_vars

\* C7 (I1): no item base name exists in staging both as <name>.mail and as
\* <name>.processing.
C7_NoDoubleSuffix ==
    \A f, g \in staging : f.name = g.name => f.suffix = g.suffix

\* C7 witness: a file claimed by one call was restored and claimed again by
\* the other call, and another saved file has been removed.
C7_Witness ==
    /\ \E n \in Call(1).won \cap Call(2).won : Exists(staging, n, "processing")
    /\ Cardinality(staging) < nextName - 1

(***************************************************************************)
(* AIAnalyzer._parse_response.  A response text is a sequence of tokens:   *)
(* the words SAFE and QUARANTINE, the bar, a space, a run of 80 characters *)
(* of the reason class, and the newline.                                   *)
(***************************************************************************)
Tokens == {"SAFE", "QUARANTINE", "|", " ", "x80", "\n"}

\* number of tokens of a response text handed to _parse_response
MaxLen == 7

\* {1,80} in VERDICT_PATTERN
ReasonMax == 80

\* number of characters a token stands for
TokenLen(tok) ==
    CASE tok = "SAFE" -> 4
      [] tok = "QUARANTINE" -> 10
      [] tok = "x80" -> 80
      [] OTHER -> 1

RECURSIVE CharLen(_)
CharLen(s) == IF s = << >> THEN 0 ELSE TokenLen(Head(s)) + CharLen(Tail(s))

\* the class [a-zA-Z0-9 ,.\-]
IsReasonChar(tok) == tok \in {"SAFE", "QUARANTINE", " ", "x80"}

\* whitespace removed by str.strip()
IsSpace(tok) == tok \in {" ", "\n"}

RECURSIVE LStrip(_)
LStrip(s) == IF s # << >> /\ IsSpace(Head(s)) THEN LStrip(Tail(s)) ELSE s

RECURSIVE RStrip(_)
RStrip(s) ==
    IF s # << >> /\ IsSpace(s[Len(s)]) THEN RStrip(SubSeq(s, 1, Len(s) - 1)) ELSE s

\* str.strip()
Strip(s) == RStrip(LStrip(s))

\* text.split("\n")
RECURSIVE Split(_)
Split(s) ==
    IF \A i \in DOMAIN s : s[i] # "\n"
    THEN <<s>>
    ELSE LET k == CHOOSE i \in DOMAIN s : s[i] = "\n" /\ \A j \in 1 .. (i - 1) : s[j] # "\n"
         IN  <<SubSeq(s, 1, k - 1)>> \o Split(SubSeq(s, k + 1, Len(s)))

\* VERDICT_PATTERN.match(line): ^(SAFE|QUARANTINE)\|([a-zA-Z0-9 ,.\-]{1,80})$
VerdictPatternMatch(line) ==
    /\ Len(line) >= 3
    /\ line[1] \in {"SAFE", "QUARANTINE"}
    /\ line[2] = "|"
    /\ \A i \in 3 .. Len(line) : IsReasonChar(line[i])
    /\ CharLen(SubSeq(line, 3, Len(line))) \in 1 .. ReasonMax

InvalidFormat == [verdict |-> "QUARANTINE", reason |-> <<"Invalid AI response format">>]

\* match.groups() turned into a ScanResult
MatchResult(line) ==
    [verdict |-> IF line[1] = "SAFE" THEN "SAFE" ELSE "QUARANTINE",
     reason |-> SubSeq(line, 3, Len(line))]

\* a loop over the lines that keeps the last matching line
RECURSIVE ParseLinesLast(_)
ParseLinesLast(lines) ==
    IF lines = << >>
    THEN InvalidFormat
    ELSE IF ParseLinesLast(Tail(lines)) # InvalidFormat
    THEN ParseLinesLast(Tail(lines))
    ELSE IF VerdictPatternMatch(Strip(Head(lines)))
    THEN MatchResult(Strip(Head(lines)))
    ELSE InvalidFormat

\* for line in text.split("\n"): line = line.strip(); match = ...; if match: return
RECURSIVE ParseLines(_)
ParseLines(lines) ==
    IF lines = << >>
    THEN InvalidFormat
    ELSE IF VerdictPatternMatch(Strip(Head(lines)))
    THEN MatchResult(Strip(Head(lines)))
    ELSE ParseLines(Tail(lines))

ParseResponse(text) == ParseLines(Split(text))

scanUnchanged == <<procUnchanged, staging, nextName, faults, claimer>>

\* the text given to _parse_response, one token more
ResponseText(tok) ==
    /\ scan.pc = "idle"
    /\ Len(response) < MaxLen
    /\ response' = Append(response, tok)
    /\ UNCHANGED <<scanUnchanged, scan>>

\* _parse_response(text)
ParseResponseCall ==
    /\ scan.pc = "idle"
    /\ LET result == ParseResponse(response)
       IN  scan' = [scan EXCEPT !.pc = "parsed",
                                !.verdict = result.verdict,
                                !.reason = result.reason]
    /\ UNCHANGED <<scanUnchanged, response>>

ParseNext ==
    \/ \E tok \in Tokens : ResponseText(tok)
    \/ ParseResponseCall

ParseSpec == Init /\ [][ParseNext]_vars

\* the trimmed lines of a response
TrimmedLines(text) == [i \in DOMAIN Split(text) |-> Strip(Split(text)[i])]

\* the lines among them that match the verdict grammar
MatchingLines(lines) == {i \in DOMAIN lines : VerdictPatternMatch(lines[i])}

\* C9 (P4): when no trimmed line of the response matches the verdict grammar
\* (the empty response included) _parse_response returns QUARANTINE with reason
\* "Invalid AI response format"; otherwise the first matching line gives the
\* verdict and the reason.
C9_FailClosedParsing ==
    scan.pc = "parsed" =>
        LET lines == TrimmedLines(response)
            matching == MatchingLines(lines)
        IN  IF matching = {}
            THEN /\ scan.verdict = "QUARANTINE"
                 /\ scan.reason = <<"Invalid AI response format">>
            ELSE \E i \in matching :
                    /\ \A j \in matching : i <= j
                    /\ scan.verdict = lines[i][1]
                    /\ <<scan.verdict, "|">> \o scan.reason = lines[i]

\* C9 witness: a parsed response whose first matching line says QUARANTINE and
\* a later matching line says SAFE.
C9_Witness ==
    /\ scan.pc = "parsed"
    /\ scan.verdict = "QUARANTINE"
    /\ \E i, j \in MatchingLines(TrimmedLines(response)) :
          /\ i < j
          /\ TrimmedLines(response)[j][1] = "SAFE"

(***************************************************************************)
(* AIAnalyzer.analyze_email: rate limiter, prompt building, the log line,  *)
(* _call_api under its retry decorator, _parse_response, and the two       *)
(* except clauses.                                                         *)
(***************************************************************************)
\* what the caller passed as ParsedEmail.subject: a str, None, or an
\* email.header.Header object
SubjectKinds == {"str", "none", "header"}

\* stop_after_attempt(3)
MaxAttempts == 3

\* number of tokens of the judge's reply inside analyze_email
MaxReply == 3

Raised(fault) == scan' = [scan EXCEPT !.pc = "raised", !.fault = fault]

Returned(verdict, reason, fault) ==
    scan' = [scan EXCEPT !.pc = "returned", !.verdict = verdict, !.reason = reason,
                         !.fault = fault]

\* analyze_email(email) is called
AnalyzeEmail ==
    /\ scan.pc = "idle"
    /\ response = << >>
    /\ \E subject \in SubjectKinds : scan' = [scan EXCEPT !.pc = "acquire", !.subject = subject]
    /\ UNCHANGED <<scanUnchanged, response>>

\* await self.rate_limiter.acquire(), before the try block
RateLimiterAcquire ==
    /\ scan.pc = "acquire"
    /\ \/ scan' = [scan EXCEPT !.pc = "prompt"]
       \/ Raised("acquire")
    /\ UNCHANGED <<scanUnchanged, response>>

\* build_scan_prompt(...), before the try block: sanitize_for_prompt maps None
\* to "" and applies re.sub to anything else
BuildScanPrompt ==
    /\ scan.pc = "prompt"
    /\ IF scan.subject = "header"
       THEN Raised("prompt")
       ELSE scan' = [scan EXCEPT !.pc = "log"]
    /\ UNCHANGED <<scanUnchanged, response>>

\* logger.info("scanning_email", subject=email.subject[:50]), before the try block
LogScanning ==
    /\ scan.pc = "log"
    /\ IF scan.subject = "none"
       THEN Raised("log")
       ELSE scan' = [scan EXCEPT !.pc = "call", !.attempt = 1]
    /\ UNCHANGED <<scanUnchanged, response>>

\* the judge writes its reply, one token more
JudgeStreams(tok) ==
    /\ scan.pc = "call"
    /\ Len(response) < MaxReply
    /\ response' = Append(response, tok)
    /\ UNCHANGED <<scanUnchanged, scan>>

\* what one judge API call can raise: APITimeoutError, APIConnectionError,
\* another APIError (status error), or ValueError for a non-text content block
CallFaults == {"timeout", "connection", "api", "content"}

\* a retry condition that holds for every exception
RetryAnyException(fault) == TRUE

\* retry_if_exception_type((APITimeoutError, APIConnectionError))
RetryIfExceptionType(fault) == fault \in {"timeout", "connection"}

\* except anthropic.APIError / except Exception: the reason of the result
ReasonFor(fault) ==
    IF fault = "content" THEN <<"Analysis failed">> ELSE <<"AI API error">>

\* one attempt of _call_api under @retry(stop_after_attempt(3), retry on
\* APITimeoutError / APIConnectionError, reraise=True), and the except clauses
\* of analyze_email for what it raises; calls lists the outcome of every
\* judge API call made so far
CallApi ==
    /\ scan.pc = "call"
    /\ \/ /\ response' = Strip(response)
          /\ scan' = [scan EXCEPT !.pc = "parse", !.calls = Append(@, "ok")]
       \/ /\ \E fault \in CallFaults :
                IF RetryIfExceptionType(fault) /\ scan.attempt < MaxAttempts
                THEN scan' = [scan EXCEPT !.attempt = @ + 1, !.calls = Append(@, fault)]
                ELSE scan' = [scan EXCEPT !.pc = "returned",
                                          !.verdict = "QUARANTINE",
                                          !.reason = ReasonFor(fault),
                                          !.fault = fault,
                                          !.calls = Append(@, fault)]
          /\ response' = << >>
    /\ UNCHANGED scanUnchanged

\* result = self._parse_response(raw_response); return result
AnalyzeParse ==
    /\ scan.pc = "parse"
    /\ LET result == ParseResponse(response)
       IN  Returned(result.verdict, result.reason,
                    IF MatchingLines(TrimmedLines(response)) = {} THEN "format" ELSE "none")
    /\ UNCHANGED <<scanUnchanged, response>>

AnalyzeNext ==
    \/ AnalyzeEmail
    \/ RateLimiterAcquire
    \/ BuildScanPrompt
    \/ LogScanning
    \/ \E tok \in Tokens : JudgeStreams(tok)
    \/ CallApi
    \/ AnalyzeParse

AnalyzeSpec == Init /\ [][AnalyzeNext]_vars

C40_JudgeRetryPolicy ==
    /\ Len(scan.calls) <= 3
    /\ \A i \in DOMAIN scan.calls :
          i < Len(scan.calls) => scan.calls[i] \in {"timeout", "connection"}
    /\ \A i \in DOMAIN scan.calls :
          scan.calls[i] \in {"api", "content"} =>
              scan.pc = "returned" /\ scan.verdict = "QUARANTINE"
    /\ (Len(scan.calls) = 3 /\ scan.calls[3] # "ok" =>
            scan.pc = "returned" /\ scan.verdict = "QUARANTINE")

\* three judge calls, each ending in a timeout or connection fault
C40_Witness ==
    /\ scan.pc = "returned"
    /\ Len(scan.calls) = 3
    /\ scan.calls[3] \in {"timeout", "connection"}
    /\ scan.verdict = "QUARANTINE"

(***************************************************************************)
(* RateLimiter.acquire() and the judge calls made under it: analyze_email  *)
(* acquires once, then _call_api issues up to three API calls.  Time is    *)
(* in seconds; the clock is read at multiples of Quantum.                  *)
(***************************************************************************)
\* settings.rate_limit_per_minute as configured for the modelled run
MaxPerMinute == 2

\* timedelta(minutes=1), in seconds
Minute == 60

\* granularity of the modelled clock, in seconds
Quantum == 20

\* last clock value of a behaviour, in seconds
MaxTime == 120

\* number of analyze_email calls in one behaviour
MaxAcquires == 4

limiterUnchanged ==
    <<procVars, staging, attempts, acceptances, claimer, response, scan, lmtp, fetcher,
      saver, imap>>

\* while self.timestamps and self.timestamps[0] < cutoff: popleft()
RECURSIVE Evict(_, _)
Evict(ts, cutoff) ==
    IF ts # << >> /\ Head(ts) < cutoff THEN Evict(Tail(ts), cutoff) ELSE ts

\* history: the judge calls initiated during the last minute
Recent(calls, now) == SelectSeq(calls, LAMBDA t : t + Minute > now)

\* time passes between calls and while a judge call is awaited
ClockAdvance ==
    /\ limiter.pc \in {"idle", "call"}
    /\ limiter.now + Quantum <= MaxTime
    /\ limiter' = [limiter EXCEPT !.now = @ + Quantum,
                                  !.calls = Recent(@, limiter.now + Quantum)]
    /\ UNCHANGED limiterUnchanged

\* acquire() up to the sleep: evict, then at capacity sleep if wait_time > 0,
\* else (and below capacity) append now
Acquire ==
    /\ limiter.pc = "idle"
    /\ limiter.acquires < MaxAcquires
    /\ LET kept == Evict(limiter.timestamps, limiter.now - Minute)
       IN  IF Len(kept) >= MaxPerMinute /\ Head(kept) + Minute - limiter.now > 0
           THEN limiter' = [limiter EXCEPT !.pc = "sleep", !.timestamps = kept,
                                           !.acquires = @ + 1,
                                           !.wake = Head(kept) + Minute]
           ELSE limiter' = [limiter EXCEPT !.pc = "call", !.attempt = 1,
                                           !.acquires = @ + 1,
                                           !.timestamps = Append(kept, limiter.now)]
    /\ UNCHANGED limiterUnchanged

\* acquire() after asyncio.sleep(wait_time): the sleep ends at the wake time or
\* later; now is read again, old timestamps are evicted, now is appended
AcquireWake ==
    /\ limiter.pc = "sleep"
    /\ \E late \in {0, Quantum} :
          /\ limiter.wake + late <= MaxTime
          /\ limiter' = [limiter EXCEPT
                            !.pc = "call", !.attempt = 1,
                            !.now = limiter.wake + late,
                            !.calls = Recent(@, limiter.wake + late),
                            !.timestamps = Append(Evict(@, limiter.wake + late - Minute),
                                                  limiter.wake + late)]
    /\ UNCHANGED limiterUnchanged

\* _call_api: client.messages.create is issued; a timeout or connection error
\* is retried up to stop_after_attempt(3) without another acquire()
JudgeCall ==
    /\ limiter.pc = "call"
    /\ \/ limiter' = [limiter EXCEPT !.pc = "idle", !.attempt = 0,
                                     !.calls = Append(@, limiter.now)]
       \/ /\ limiter.attempt < MaxAttempts
          /\ limiter' = [limiter EXCEPT !.attempt = @ + 1,
                                        !.calls = Append(@, limiter.now)]
    /\ UNCHANGED limiterUnchanged

RateNext ==
    \/ ClockAdvance
    \/ Acquire
    \/ AcquireWake
    \/ JudgeCall

RateSpec == Init /\ [][RateNext]_vars

\* C15 (P6): no 60-second window holds more than rate_limit_per_minute judge
\* calls (the calls re-issued by the retry policy included), and the limiter
\* never holds more than max_per_minute timestamps.
C15_RateLimit ==
    /\ Len(limiter.timestamps) <= MaxPerMinute
    /\ \A i \in DOMAIN limiter.calls :
          Cardinality({j \in DOMAIN limiter.calls :
                          /\ limiter.calls[i] <= limiter.calls[j]
                          /\ limiter.calls[j] < limiter.calls[i] + Minute}) <= MaxPerMinute

(***************************************************************************)
(* LMTPDelivery.deliver(): the dialogue with the LMTP server, one library   *)
(* call per stage.  A call returns the server's (code, message), raises     *)
(* SMTPResponseException carrying a code, or raises another exception       *)
(* (refused connection, timeout, I/O error).                                *)
(***************************************************************************)
\* number of deliver() calls in one behaviour
MaxDeliveries == 2

\* except SMTPResponseException: if e.code >= 500
PermanentFrom == 500

lmtpUnchanged ==
    <<procVars, staging, attempts, acceptances, claimer, response, scan, limiter, fetcher,
      saver, imap>>

Stages == <<"connect", "lhlo", "mail", "rcpt", "data", "final", "quit">>

StageAfter(stage) == Stages[(CHOOSE i \in DOMAIN Stages : Stages[i] = stage) + 1]

\* the codes deliver() accepts at each stage
Accepts(stage) ==
    CASE stage = "connect" -> {220}
      [] stage = "lhlo"    -> {220, 250}
      [] stage = "mail"    -> {250}
      [] stage = "rcpt"    -> {250, 251}
      [] stage = "data"    -> {354}
      [] stage = "final"   -> {250, 251}

\* codes a server may answer with
ReplyCodes == {220, 250, 251, 354, 451, 550}

Reply(stage, kind, code) == [stage |-> stage, kind |-> kind, code |-> code]

\* what the library call of a stage can do: client.connect() returns on a 220
\* greeting only; execute_command and read_response return whatever code the
\* server sent
Replies(stage) ==
    {Reply(stage, "returned", c) :
        c \in IF stage = "connect" THEN Accepts(stage) ELSE ReplyCodes}
    \cup {Reply(stage, "response_error", c) : c \in {451, 550}}
    \cup {Reply(stage, "error", 0)}

\* deliver() is over with the given outcome
Finished(reply, outcome) ==
    [lmtp EXCEPT !.pc = "done", !.dialogue = Append(@, reply), !.result = outcome]

\* an answer outside the expected codes does not stop the dialogue
Tolerated(reply) ==
    [lmtp EXCEPT !.pc = StageAfter(lmtp.pc), !.dialogue = Append(@, reply)]

\* if code not in (...): raise DeliveryError(...), raised inside the try block
\* and caught by `except Exception`: return False
Rejected(reply) == Finished(reply, "False")

\* except aiosmtplib.SMTPResponseException as e
OnResponseException(reply) ==
    IF reply.code >= PermanentFrom
    THEN Finished(reply, "DeliveryError")
    ELSE Finished(reply, "False")

\* except Exception: return False
OnException(reply) == Finished(reply, "False")

\* deliver(raw_email) is called
LmtpStart ==
    /\ lmtp.pc \in {"idle", "done"}
    /\ lmtp.calls < MaxDeliveries
    /\ lmtp' = [pc |-> "connect", dialogue |-> << >>, result |-> "none",
                calls |-> lmtp.calls + 1, quit |-> "none"]
    /\ UNCHANGED lmtpUnchanged

\* one stage of the dialogue; the message bytes are written to the transport
\* on entering "final", whose library call reads the server's response
LmtpStage ==
    /\ lmtp.pc \notin {"idle", "done", "quit"}
    /\ \E reply \in Replies(lmtp.pc) :
          lmtp' = CASE reply.kind = "response_error" -> OnResponseException(reply)
                    [] reply.kind = "error" -> OnException(reply)
                    [] reply.kind = "returned" ->
                         IF reply.code \notin Accepts(lmtp.pc)
                         THEN Rejected(reply)
                         ELSE [lmtp EXCEPT !.pc = StageAfter(lmtp.pc),
                                           !.dialogue = Append(@, reply)]
    /\ UNCHANGED lmtpUnchanged

\* try: await client.quit() / except Exception: client.close(); return True
LmtpQuit ==
    /\ lmtp.pc = "quit"
    /\ \E outcome \in {"ok", "failed"} :
          lmtp' = [lmtp EXCEPT !.pc = "done", !.result = "True", !.quit = outcome]
    /\ UNCHANGED lmtpUnchanged

LmtpNext == LmtpStart \/ LmtpStage \/ LmtpQuit

LmtpSpec == Init /\ [][LmtpNext]_vars

\* the reply that ended the finished deliver() call
LastReply == lmtp.dialogue[Len(lmtp.dialogue)]

\* C26: deliver raises DeliveryError whenever the server answered a stage
\* with a 5xx code, returns False for a 4xx code and for an I/O or timeout
\* error, and returns True only for a final 250/251.
C26_LmtpClassification ==
    lmtp.pc = "done" =>
        /\ (LastReply.kind # "error" /\ LastReply.code >= PermanentFrom =>
                lmtp.result = "DeliveryError")
        /\ (LastReply.kind = "error" => lmtp.result = "False")
        /\ (LastReply.code \in 400 .. 499 => lmtp.result = "False")
        /\ (lmtp.result = "True" =>
                LastReply = Reply("final", "returned", LastReply.code)
                /\ LastReply.code \in {250, 251})

\* the stage has been answered in this deliver() call
Answered(stage) == \E i \in DOMAIN lmtp.dialogue : lmtp.dialogue[i].stage = stage

\* C35: the dialogue runs connect, LHLO, MAIL FROM, RCPT TO, DATA, message
\* bytes strictly in that order, each step only after the previous one got an
\* expected code (220/250, 250, 250/251, 354); the message bytes are written
\* only after DATA returned 354; and the finished call's result is True
\* exactly when the final response is 250 or 251, whatever QUIT did.
C35_DialogueOrder ==
    LET d == lmtp.dialogue
        Expected(stage) ==
            CASE stage = "lhlo" -> {220, 250}
              [] stage = "mail" -> {250}
              [] stage = "rcpt" -> {250, 251}
              [] stage = "data" -> {354}
              [] OTHER -> ReplyCodes
    IN  /\ Len(d) <= 6
        /\ \A i \in DOMAIN d : d[i].stage = Stages[i]
        /\ \A i \in DOMAIN d :
              i < Len(d) \/ lmtp.pc \notin {"idle", "done"} =>
                  d[i].kind = "returned" /\ d[i].code \in Expected(d[i].stage)
        /\ (lmtp.pc = "final" \/ Answered("final") =>
                \E i \in DOMAIN d : d[i] = Reply("data", "returned", 354))
        /\ (lmtp.pc = "done" =>
                (lmtp.result = "True" <=>
                    \E c \in {250, 251} :
                        \E i \in DOMAIN d : d[i] = Reply("final", "returned", c)))

\* a delivery confirmed with 250 whose QUIT failed
C35_Witness ==
    /\ lmtp.pc = "done"
    /\ lmtp.quit = "failed"
    /\ lmtp.result = "True"
    /\ Answered("final")

(***************************************************************************)
(* The fetch phase of successive cycles over a connected IMAP session, for  *)
(* an INBOX in which the server refuses the delete of some messages every   *)
(* time (STORE or EXPUNGE fails).  _process_email has no effect on the      *)
(* INBOX and is one step here.                                              *)
(***************************************************************************)
fetcherUnchanged ==
    <<procVars, staging, attempts, acceptances, claimer, response, scan, limiter, lmtp,
      saver, imap>>

\* the messages that arrive in this INBOX
FetcherMessages == 1 .. (MaxMsgs + 1)

\* a message arrives upstream; the server may refuse to delete it
FetcherArrive ==
    /\ \E raw \in FetcherMessages \ fetcher.ever : \E refuse \in BOOLEAN :
          fetcher' = [fetcher EXCEPT
                         !.inbox = Append(@, raw),
                         !.ever = @ \cup {raw},
                         !.refused = IF refuse THEN @ \cup {raw} ELSE @]
    /\ UNCHANGED fetcherUnchanged

\* run(): the loop starts a cycle; fetch_new_messages(): SELECT INBOX, SEARCH ALL
FetcherSearch ==
    /\ fetcher.pc = "loop"
    /\ fetcher' = [fetcher EXCEPT !.pc = "fetch",
                                  !.pending = [i \in 1 .. Len(fetcher.inbox) |-> i],
                                  !.found = Len(fetcher.inbox),
                                  !.skipped = {},
                                  !.yielded = {}]
    /\ UNCHANGED fetcherUnchanged

\* fetch_new_messages(): FETCH of the next searched message; a failed FETCH is
\* skipped, a fetched message is yielded
FetcherFetch ==
    /\ fetcher.pc = "fetch"
    /\ IF fetcher.pending = << >>
       THEN fetcher' = [fetcher EXCEPT !.pc = "wait"]
       ELSE \/ fetcher' = [fetcher EXCEPT !.pc = "save",
                                          !.pending = Tail(@),
                                          !.seq = Head(fetcher.pending),
                                          !.raw = fetcher.inbox[Head(fetcher.pending)],
                                          !.yielded = @ \cup {Head(fetcher.pending)}]
            \/ /\ fetcher.faults < MaxFaults
               /\ fetcher' = [fetcher EXCEPT !.pending = Tail(@), !.faults = @ + 1,
                                             !.skipped = @ \cup {Head(fetcher.pending)}]
    /\ UNCHANGED fetcherUnchanged

\* the consumer is done with the yielded message (continue, or the end of the
\* loop body) and resumes the generator
FetcherResume ==
    [fetcher EXCEPT !.pending = AfterYield(@),
                    !.pc = IF AfterYield(fetcher.pending) = << >> THEN "wait" ELSE "fetch",
                    !.raw = 0, !.seq = 0]

\* _process_cycle(): save_to_staging; on an exception: continue
FetcherSave ==
    /\ fetcher.pc = "save"
    /\ \/ fetcher' = [fetcher EXCEPT !.pc = "delete", !.saved = @ \cup {fetcher.raw}]
       \/ /\ fetcher.faults < MaxFaults
          /\ fetcher' = [FetcherResume EXCEPT !.faults = @ + 1]
    /\ UNCHANGED fetcherUnchanged

\* _process_cycle(): delete_message; a failure is logged
FetcherDelete ==
    /\ fetcher.pc = "delete"
    /\ fetcher' = [fetcher EXCEPT
                      !.pc = "process",
                      !.inbox = IF fetcher.raw \in fetcher.refused
                                THEN @
                                ELSE Expunge(@, fetcher.seq)]
    /\ UNCHANGED fetcherUnchanged

\* _process_cycle(): _process_email returns (or raises, which ends the cycle)
FetcherProcess ==
    /\ fetcher.pc = "process"
    /\ fetcher' = FetcherResume
    /\ UNCHANGED fetcherUnchanged

\* run(): the fetch_interval wait, then the next cycle
FetcherWait ==
    /\ fetcher.pc = "wait"
    /\ fetcher' = [fetcher EXCEPT !.pc = "loop", !.pending = << >>]
    /\ UNCHANGED fetcherUnchanged

FetcherStep ==
    \/ FetcherSearch
    \/ FetcherFetch
    \/ FetcherSave
    \/ FetcherDelete
    \/ FetcherProcess
    \/ FetcherWait

FetcherNext == FetcherStep \/ FetcherArrive

\* cycles are scheduled fairly
FetcherSpec == Init /\ [][FetcherNext]_vars /\ WF_vars(FetcherStep)

FetcherHolds(raw) == \E i \in DOMAIN fetcher.inbox : fetcher.inbox[i] = raw

\* C28: every message in the upstream INBOX is eventually fetched and saved
\* to staging, also when the delete of an earlier message is refused on every
\* cycle.
C28_NoUpstreamStarvation ==
    \A raw \in FetcherMessages : FetcherHolds(raw) ~> (raw \in fetcher.saved)

\* the searched message follows one whose FETCH failed in this call, and its
\* own FETCH did not fail
AfterSkipped(i) == i \notin fetcher.skipped /\ \E j \in fetcher.skipped : j < i

\* C34: a FETCH failure for one message does not end the fetch sequence: when
\* the call is over, every message SEARCH returned that follows the failed
\* one has been yielded.
C34_FetchFailureSkipsOne ==
    fetcher.pc = "wait" =>
        \A i \in 1 .. fetcher.found : AfterSkipped(i) => i \in fetcher.yielded

(***************************************************************************)
(* MaildirManager.save_to_staging(raw_email): open and write, chmod, stat   *)
(* and size check, and the clean-up of the except clause.  A file of the    *)
(* directory is its name (under the .mail suffix) and its on-disk size.     *)
(***************************************************************************)
\* len(raw_email) ranges over 0 .. MaxSize
MaxSize == 2

\* number of save_to_staging() calls in one behaviour
MaxSaves == 2

saverUnchanged ==
    <<procVars, staging, attempts, acceptances, claimer, response, scan, limiter, lmtp,
      fetcher, imap>>

Entry(name, size) == [name |-> name, size |-> size]

\* dest_path.exists()
OnDisk(dir, name) == \E f \in dir : f.name = name

\* aiofiles.os.remove(dest_path)
Removed(dir, name) == {f \in dir : f.name # name}

\* save_to_staging(raw_email) is called: a fresh filename, expected_size
SaverStart ==
    /\ saver.pc \in {"idle", "done"}
    /\ saver.calls < MaxSaves
    /\ \E size \in 0 .. MaxSize :
          saver' = [saver EXCEPT !.pc = "write", !.name = saver.calls + 1,
                                 !.expected = size, !.result = "none",
                                 !.calls = @ + 1]
    /\ UNCHANGED saverUnchanged

\* async with aiofiles.open(dest_path, "wb") as f: await f.write(raw_email):
\* the open fails (no file), or the file holds some of the bytes and the
\* write or close raises, or the block ends without an exception
SaverWrite ==
    /\ saver.pc = "write"
    /\ \/ saver' = [saver EXCEPT !.pc = "cleanup"]
       \/ \E written \in 0 .. saver.expected : \E raised \in BOOLEAN :
             saver' = [saver EXCEPT !.dir = @ \cup {Entry(saver.name, written)},
                                    !.pc = IF raised THEN "cleanup" ELSE "chmod"]
    /\ UNCHANGED saverUnchanged

\* dest_path.chmod(0o660)
SaverChmod ==
    /\ saver.pc = "chmod"
    /\ \E raised \in BOOLEAN :
          saver' = [saver EXCEPT !.pc = IF raised THEN "cleanup" ELSE "stat"]
    /\ UNCHANGED saverUnchanged

\* actual_size = dest_path.stat().st_size; a mismatch raises DeliveryError
\* inside the try block; otherwise return filename
SaverStat ==
    /\ saver.pc = "stat"
    /\ \/ saver' = [saver EXCEPT !.pc = "cleanup"]
       \/ saver' = IF Entry(saver.name, saver.expected) \in saver.dir
                   THEN [saver EXCEPT !.pc = "done", !.result = "filename"]
                   ELSE [saver EXCEPT !.pc = "cleanup"]
    /\ UNCHANGED saverUnchanged

\* except Exception: if dest_path.exists(): try: remove(dest_path) except
\* Exception: pass
CleanUp(removed) ==
    IF OnDisk(saver.dir, saver.name) /\ removed
    THEN Removed(saver.dir, saver.name)
    ELSE saver.dir

\* the except clause: clean up, then raise DeliveryError
SaverCleanup ==
    /\ saver.pc = "cleanup"
    /\ \E removed \in BOOLEAN :
          saver' = [saver EXCEPT !.dir = CleanUp(removed), !.pc = "done",
                                 !.result = "DeliveryError"]
    /\ UNCHANGED saverUnchanged

SaverNext == SaverStart \/ SaverWrite \/ SaverChmod \/ SaverStat \/ SaverCleanup

SaveSpec == Init /\ [][SaverNext]_vars

\* C36: save_to_staging is a verified commit: it returns a filename only if
\* the file is in staging with on-disk size len(raw), and when it raises no
\* file is left under that name in staging.
C36_VerifiedCommit ==
    saver.pc = "done" =>
        /\ (saver.result = "filename" =>
                Entry(saver.name, saver.expected) \in saver.dir)
        /\ (saver.result = "DeliveryError" => ~OnDisk(saver.dir, saver.name))

(***************************************************************************)
(* One IMAPFetcher object and the calls made on it: connect(), reconnect(), *)
(* disconnect(), fetch_new_messages() and delete_message().  health holds   *)
(* _connected, _consecutive_failures, _last_error, _last_successful_fetch;  *)
(* before is their value when the call in hand was made.                    *)
(***************************************************************************)
\* number of calls on the object in one behaviour
MaxOps == 3

MAX_RECONNECT_ATTEMPTS == 5
INITIAL_BACKOFF_SECONDS == 5
MAX_BACKOFF_SECONDS == 300

imapUnchanged ==
    <<procVars, staging, attempts, acceptances, claimer, response, scan, limiter, lmtp,
      fetcher, saver>>

\* is_connected
IsConnected == imap.health.connected /\ imap.client

\* a backoff that does not grow
FixedBackoff(attempt) == INITIAL_BACKOFF_SECONDS

\* backoff = min(INITIAL_BACKOFF_SECONDS * 2 ** (attempt - 1), MAX_BACKOFF_SECONDS)
Backoff(attempt) ==
    LET doubled == INITIAL_BACKOFF_SECONDS * 2 ^ (attempt - 1)
    IN  IF doubled < MAX_BACKOFF_SECONDS THEN doubled ELSE MAX_BACKOFF_SECONDS

\* a successful connect that keeps the failure count
ConnectOkKeeping(h) ==
    Health(TRUE, h.consecutive_failures, "none", h.last_successful_fetch)

\* connect(), greeting and login accepted
ConnectOk(h) == Health(TRUE, 0, "none", h.last_successful_fetch)

\* connect(), except Exception
ConnectFailed(h) ==
    Health(FALSE, h.consecutive_failures, "connect", h.last_successful_fetch)

\* fetch_new_messages(), outer except clause
ConnectionDropped(h) ==
    Health(FALSE, h.consecutive_failures + 1, "fetch", h.last_successful_fetch)

\* a failed delete that is taken for a lost connection
DeleteMarksDown(h) ==
    Health(FALSE, h.consecutive_failures + 1, "delete", h.last_successful_fetch)

\* delete_message(), except Exception: log, raise DeliveryError
DeleteRaised(h) == h

\* a call is made on the object
Begin(op) ==
    [imap EXCEPT !.op = op, !.before = imap.health, !.ops = @ + 1, !.result = "none",
                 !.attempt = 0, !.tries = 0, !.sleeps = << >>]

CanCall == imap.pc = "idle" /\ imap.ops < MaxOps

\* connect(): self._client is assigned first; the constructor may itself raise
ImapConnect ==
    /\ CanCall
    /\ \/ imap' = [Begin("connect") EXCEPT !.client = TRUE,
                                            !.health = ConnectOk(imap.health),
                                            !.result = "returned"]
       \/ \E held \in {TRUE, imap.client} :
             imap' = [Begin("connect") EXCEPT !.client = held,
                                              !.health = ConnectFailed(imap.health),
                                              !.result = "DeliveryError"]
    /\ UNCHANGED imapUnchanged

\* disconnect(): if self._client: logout (failure suppressed), _client = None,
\* _connected = False
Logout(h, held) == IF held THEN [h EXCEPT !.connected = FALSE] ELSE h

ImapDisconnect ==
    /\ CanCall
    /\ imap' = [Begin("disconnect") EXCEPT !.client = FALSE,
                                           !.health = Logout(imap.health, imap.client),
                                           !.result = "returned"]
    /\ UNCHANGED imapUnchanged

\* fetch_new_messages(): not connected; SELECT/SEARCH raising; SEARCH not OK;
\* or the messages are found (the time of the call is recorded)
ImapFetch ==
    /\ CanCall
    /\ IF ~imap.client \/ ~imap.health.connected
       THEN imap' = [Begin("fetch") EXCEPT !.result = "DeliveryError"]
       ELSE \/ imap' = [Begin("fetch") EXCEPT
                           !.health = ConnectionDropped(imap.health),
                           !.result = "DeliveryError"]
            \/ imap' = [Begin("fetch") EXCEPT !.result = "returned"]
            \/ imap' = [Begin("fetch") EXCEPT
                           !.health.last_successful_fetch = imap.ops + 1,
                           !.result = "returned"]
    /\ UNCHANGED imapUnchanged

\* delete_message(msg_id): no client; SELECT raising (outside the try block);
\* STORE or EXPUNGE raising; or the message is deleted
ImapDelete ==
    /\ CanCall
    /\ IF ~imap.client
       THEN imap' = [Begin("delete") EXCEPT !.result = "DeliveryError"]
       ELSE \/ imap' = [Begin("delete") EXCEPT !.result = "error"]
            \/ imap' = [Begin("delete") EXCEPT !.health = DeleteRaised(imap.health),
                                               !.result = "DeliveryError"]
            \/ imap' = [Begin("delete") EXCEPT !.result = "returned"]
    /\ UNCHANGED imapUnchanged

\* reconnect(): await self.disconnect(), then the first attempt
ImapReconnect ==
    /\ CanCall
    /\ imap' = [Begin("reconnect") EXCEPT !.client = FALSE,
                                          !.health = Logout(imap.health, imap.client),
                                          !.pc = "attempt",
                                          !.attempt = 1]
    /\ UNCHANGED imapUnchanged

\* reconnect(): if attempt < MAX_RECONNECT_ATTEMPTS (negated)
LastAttempt(attempt) == ~(attempt < MAX_RECONNECT_ATTEMPTS)

\* reconnect(): one connect() of the loop; except DeliveryError:
\* _consecutive_failures += 1
ImapReconnectAttempt ==
    /\ imap.pc = "attempt"
    /\ \/ imap' = [imap EXCEPT !.client = TRUE,
                                !.health = ConnectOk(imap.health),
                                !.tries = @ + 1,
                                !.result = "True",
                                !.pc = "idle"]
       \/ \E held \in {TRUE, imap.client} :
             imap' = [imap EXCEPT
                        !.client = held,
                        !.health = [ConnectFailed(imap.health) EXCEPT
                                        !.consecutive_failures = @ + 1],
                        !.tries = @ + 1,
                        !.result = IF LastAttempt(imap.attempt) THEN "False" ELSE "none",
                        !.pc = IF LastAttempt(imap.attempt) THEN "idle" ELSE "sleep"]
    /\ UNCHANGED imapUnchanged

\* reconnect(): await asyncio.sleep(backoff), next attempt
ImapReconnectSleep ==
    /\ imap.pc = "sleep"
    /\ imap' = [imap EXCEPT !.sleeps = Append(@, Backoff(imap.attempt)),
                            !.attempt = @ + 1,
                            !.pc = "attempt"]
    /\ UNCHANGED imapUnchanged

ImapNext ==
    \/ ImapConnect
    \/ ImapDisconnect
    \/ ImapFetch
    \/ ImapDelete
    \/ ImapReconnect
    \/ ImapReconnectAttempt
    \/ ImapReconnectSleep

ImapSpec == Init /\ [][ImapNext]_vars

\* C37: reconnect() first disconnects, makes at most 5 connect attempts,
\* returns True at the first successful one, sleeps 5, 10, 20, 40 s after the
\* failed attempts 1 to 4 and not after the 5th, and returns False after 5
\* failures with consecutive_failures increased by 5.
C37_ReconnectBounded ==
    imap.op = "reconnect" =>
        /\ imap.tries <= 5
        /\ (imap.tries = 5 => imap.pc = "idle")
        /\ (imap.tries = 0 => ~imap.client /\ ~imap.health.connected)
        /\ imap.sleeps = SubSeq(<<5, 10, 20, 40>>, 1, Len(imap.sleeps))
        /\ (imap.pc = "idle" =>
                \/ /\ imap.result = "True"
                   /\ IsConnected
                   /\ imap.tries = Len(imap.sleeps) + 1
                \/ /\ imap.result = "False"
                   /\ imap.tries = 5
                   /\ imap.sleeps = <<5, 10, 20, 40>>
                   /\ imap.health.consecutive_failures
                          = imap.before.consecutive_failures + 5)

\* a reconnect() that gave up after its last attempt
C37_Witness ==
    /\ imap.op = "reconnect"
    /\ imap.pc = "idle"
    /\ imap.result = "False"

\* C38: after a successful connect() the object is connected, the failure
\* count is 0 and last_error is cleared; after a failed connect() it is not
\* connected, last_error holds the error and the call has raised.
C38_ConnectEffects ==
    imap.op = "connect" =>
        \/ /\ imap.result = "returned"
           /\ IsConnected
           /\ imap.health.consecutive_failures = 0
           /\ imap.health.last_error = "none"
        \/ /\ imap.result = "DeliveryError"
           /\ ~imap.health.connected
           /\ ~IsConnected
           /\ imap.health.last_error = "connect"

\* a successful connect() on an object that had counted a failure
C38_Witness ==
    /\ imap.op = "connect"
    /\ imap.result = "returned"
    /\ imap.before.consecutive_failures > 0
    /\ imap.before.last_error # "none"

====
